---- MODULE Spec2Model ----
(***************************************************************************)
(* A model of the serum-vial distribution worker ("minion"),               *)
(* src/src/minion.ts: the per-connection rate limiter, the validation of   *)
(* subscription requests, the subscription handler with snapshot replay,   *)
(* the ingestion of data messages from the producer, and the two HTTP read *)
(* endpoints.                                                              *)
(*                                                                         *)
(* One worker is single-threaded: a handler runs to completion before the  *)
(* next one starts, so every synchronous handler is one action.  The only  *)
(* handler that suspends is _listMarkets (it awaits Market.load), which    *)
(* is two actions.                                                         *)
(*                                                                         *)
(* Workers share nothing but the markets list, which the worker that       *)
(* loaded it posts to its siblings: one worker is followed in full, and of *)
(* a sibling the markets list, its requests and its channel.               *)
(*                                                                         *)
(* Timestamps of responses (new Date().toISOString()) and log lines are    *)
(* left out: no state of the worker depends on them.                       *)
(***************************************************************************)
EXTENDS Integers, Sequences, FiniteSets, TLC

VARIABLES
    now,                      \* RateLimit: the window counter `now`
    wsLast,                   \* RateLimit: ws[last] of every connection
    wsCount,                  \* RateLimit: ws[count] of every connection
    conn,                     \* every connection: "idle", "open" or "closed"
    closeFrame,               \* the code and message a connection was ended with
    subs,                     \* uWebSockets topic tree: the <<connection, topic>> pairs
    l2SnapshotsSerialized,    \* Minion._l2SnapshotsSerialized
    l3SnapshotsSerialized,    \* Minion._l3SnapshotsSerialized
    quotesSerialized,         \* Minion._quotesSerialized
    recentTrades,             \* Minion._recentTrades
    recentTradesSerialized,   \* Minion._recentTradesSerialized
    cachedListMarketsResponse,\* Minion._cachedListMarketsResponse of every worker
    marketsChannel,           \* serumMarketsChannel: the messages on their way to every worker
    req,                      \* the GET /v1/markets requests being served
    aborted,                  \* res.aborted of every GET /v1/markets request
    running,                  \* of every worker: FALSE once its thread has died
    loaderRuns,               \* history: how often the Market.load calls were started
    response,                 \* history: the HTTP response the last step wrote
    tradeLog,                 \* history: every trade payload processed, per symbol
    windowMsgs,               \* history: the messages of each connection in this window
    sent,                     \* history: what the last step sent to each connection
    last,                     \* history: the handler that made the last step
    stepLog,                  \* observer: the steps that handled a message, in order
    delivered                 \* observer: everything sent to each connection, in order

vars == << now, wsLast, wsCount, conn, closeFrame, subs, l2SnapshotsSerialized,
           l3SnapshotsSerialized, quotesSerialized, recentTrades,
           recentTradesSerialized, cachedListMarketsResponse, marketsChannel,
           req, aborted, running, loaderRuns, response, tradeLog, windowMsgs,
           sent, last, stepLog, delivered >>

-----------------------------------------------------------------------------
(* Bounds of the model *)

\* Control messages one connection sends within one window under Spec.
MaxBurst == 2
\* Trade messages per symbol under Spec.
MaxTrades == 1
\* Trade messages per symbol under SpecTrades (more than the buffer holds).
MaxTradesLong == 150
\* Data messages under SpecCache.
MaxEvents == 3
\* Control messages and data messages together under SpecOrder.
MaxSteps == 5
\* Window ticks of the rate limiter's setInterval under SpecRate.
MaxNowRate == 1
\* Messages a connection sends past the limit within one window under SpecRate.
MaxOverLimit == 2

-----------------------------------------------------------------------------
(* Values *)

\* JavaScript's undefined, where the defined values are strings.
Undefined == "undefined"

\* An optional structured value: <<>> is undefined, <<v>> is v.
None == <<>>
Some(v) == <<v>>

Conns == {"c1", "c2"}

\* The names of workerData.markets.
MarketNames == {"BTC/USDT", "ETH/USDT"}

\* The symbols data messages carry: the registered ones and one that is not.
Symbols == MarketNames \cup {"XRP/USDT"}

Payloads == {"p1", "p2"}

\* The worker threads: every one runs this module on its own.
Workers == {"w1", "w2"}

\* The worker whose connections and caches are followed; of its sibling, the
\* GET /v1/markets side alone.
Worker == "w1"

\* The GET /v1/markets requests, and the worker each one reaches.
Requests == {"r1", "r2", "r3"}

WorkerOf == [ r1 |-> "w1", r2 |-> "w1", r3 |-> "w2" ]

RequestsOf(w) == { r \in Requests : WorkerOf[r] = w }

MAX_MESSAGES_PER_SECOND == 50

RecentTradesCapacity == 100

MaxMarketsPerRequest == 40

InternalErrorCloseCode == 1011

InternalErrorMessage == "Subscription request internal error"

OPS == {"subscribe", "unsubscribe"}

CHANNELS == {"trades", "quotes", "level2", "level3", "ticker"}

MESSAGE_TYPES_PER_CHANNEL ==
    [ trades |-> << "trade" >>,
      quotes |-> << "quote" >>,
      level2 |-> << "l2snapshot", "l2update" >>,
      level3 |-> << "l3snapshot" >>,
      ticker |-> << "trade", "quote" >> ]

DataTypes == {"trade", "quote", "l2snapshot", "l2update", "l3snapshot"}

\* `${type}/${symbol}`: a type holds no "/", so the string names the pair.
Topic(type, symbol) == << type, symbol >>

-----------------------------------------------------------------------------
(* Control messages *)

\* A raw control message is given by what JSON.parse makes of its bytes:
\* json = FALSE when JSON.parse throws; otherwise kind tells the parsed value:
\* "null", "scalar" (a number, a string, a boolean: every property of it is
\* undefined) or "object", with its op, channel and markets properties
\* (Undefined when the property is missing).  markets is given by whether
\* Array.isArray holds of it and, when it does, its items.
Raw(json, kind, op, channel, isArray, items) ==
    [ json |-> json, kind |-> kind, op |-> op, channel |-> channel,
      isArray |-> isArray, items |-> items ]

NotJson == Raw(FALSE, "none", Undefined, Undefined, FALSE, << >>)
JsonNull == Raw(TRUE, "null", Undefined, Undefined, FALSE, << >>)
JsonScalar == Raw(TRUE, "scalar", Undefined, Undefined, FALSE, << >>)
Request(op, channel, items) == Raw(TRUE, "object", op, channel, TRUE, items)
RequestNoArray(op, channel) == Raw(TRUE, "object", op, channel, FALSE, << >>)

\* n copies of m.
Rep(m, n) == [ i \in 1..n |-> m ]

\* What the validator returns: a request, an error, or a thrown exception.
Valid(raw) == [ isValid |-> TRUE, thrown |-> FALSE, error |-> << >>, request |-> raw ]
Invalid(text, value) ==
    [ isValid |-> FALSE, thrown |-> FALSE, error |-> << text, value >>,
      request |-> NotJson ]
Thrown == [ isValid |-> FALSE, thrown |-> TRUE, error |-> << >>, request |-> NotJson ]

\* The first item of markets that is no registered market name (0: none).
FirstUnknown(items) ==
    LET bad == { i \in 1..Len(items) : items[i] \notin MarketNames }
    IN  IF bad = {} THEN 0 ELSE CHOOSE i \in bad : \A j \in bad : i <= j

\* Mutant of ValidateRequestPayload: the markets are looked up before their
\* number is checked.
ValidateRequestPayloadNamesFirst(raw) ==
    IF ~raw.json THEN Invalid("Invalid JSON.", "")
    ELSE IF raw.kind = "null" THEN Thrown
    ELSE IF raw.op \notin OPS THEN Invalid("Invalid op", raw.op)
    ELSE IF raw.channel \notin CHANNELS
         THEN Invalid("Invalid channel provided", raw.channel)
    ELSE IF ~raw.isArray \/ Len(raw.items) = 0
         THEN Invalid("Invalid or empty markets array provided.", "")
    ELSE IF FirstUnknown(raw.items) # 0
         THEN Invalid("Invalid market name provided",
                      raw.items[FirstUnknown(raw.items)])
    ELSE IF Len(raw.items) > MaxMarketsPerRequest
         THEN Invalid("Too large markets array provided (> 40 items).", "")
    ELSE Valid(raw)

ValidateRequestPayload(raw) ==
    IF ~raw.json THEN Invalid("Invalid JSON.", "")
    \* payload.op of null throws a TypeError, outside the try of JSON.parse
    ELSE IF raw.kind = "null" THEN Thrown
    ELSE IF raw.op \notin OPS THEN Invalid("Invalid op", raw.op)
    ELSE IF raw.channel \notin CHANNELS
         THEN Invalid("Invalid channel provided", raw.channel)
    ELSE IF ~raw.isArray \/ Len(raw.items) = 0
         THEN Invalid("Invalid or empty markets array provided.", "")
    ELSE IF Len(raw.items) > MaxMarketsPerRequest
         THEN Invalid("Too large markets array provided (> 40 items).", "")
    ELSE IF FirstUnknown(raw.items) # 0
         THEN Invalid("Invalid market name provided",
                      raw.items[FirstUnknown(raw.items)])
    ELSE Valid(raw)

-----------------------------------------------------------------------------
(* Messages sent to a connection *)

ErrorResponse(message) == [ type |-> "error", message |-> message ]

SuccessResponse(request) ==
    [ type |-> IF request.op = "subscribe" THEN "subscribed" ELSE "unsubscribed",
      channel |-> request.channel,
      markets |-> request.items ]

\* A payload of the producer, sent as it is.
Data(payload) == [ type |-> "data", payload |-> payload ]

RateLimitMessage ==
    << "Too many requests, slow down. Current limit (messages per second)",
       ToString(MAX_MESSAGES_PER_SECOND) >>

\* An HTTP response: its status, and its body as the trades of a recent-trades
\* array, the error of a 400, or the text of the markets list.
HttpResponse(status, trades, error, text) ==
    [ status |-> status, trades |-> trades, error |-> error, text |-> text ]

\* A message of the producer (MessageEnvelope).
Envelope(type, symbol, payload, publish) ==
    [ type |-> type, symbol |-> symbol, payload |-> payload, publish |-> publish ]

NoEnvelope == Envelope("none", "none", "none", FALSE)

\* The history of the last step: the handler that ran, the connection and the
\* raw message of a control message, the envelope of a data message, the market
\* or request of an HTTP request, and the subscriptions before the step.
Last(handler, c, raw, message, arg) ==
    [ handler |-> handler, conn |-> c, raw |-> raw, message |-> message,
      arg |-> arg, subs |-> subs ]

NothingSent == [ c \in Conns |-> << >> ]

-----------------------------------------------------------------------------
(* RateLimit *)

\* ws[last] != now: the first message of the connection in this window.
RateLimitNewWindow(c) == wsLast[c] # now

\* ws[count] after the call.
RateLimitCount(c) == IF RateLimitNewWindow(c) THEN 1 ELSE wsCount[c] + 1

\* Mutant of RateLimit: the comparison is off by one.
RateLimitOffByOne(c) ==
    IF RateLimitNewWindow(c) THEN FALSE
    ELSE RateLimitCount(c) >= MAX_MESSAGES_PER_SECOND

\* What _wsMessagesRateLimit(ws) returns: TRUE rejects the message.
RateLimit(c) ==
    IF RateLimitNewWindow(c) THEN FALSE
    ELSE RateLimitCount(c) > MAX_MESSAGES_PER_SECOND

-----------------------------------------------------------------------------
(* CircularBuffer *)

CircularBufferAppend(buffer, value) ==
    IF Len(buffer) = RecentTradesCapacity
    THEN Append(Tail(buffer), value)
    ELSE Append(buffer, value)

CircularBufferItems(buffer) == buffer

-----------------------------------------------------------------------------
(* _handleSubscriptionRequest *)

\* The (type, market) pairs in the order of the two nested loops.
RequestedPairs(request) ==
    LET types == MESSAGE_TYPES_PER_CHANNEL[request.channel]
        n == Len(request.items)
    IN  [ k \in 1..(Len(types) * n) |->
            << types[((k - 1) \div n) + 1], request.items[((k - 1) % n) + 1] >> ]

\* Mutant of CachedSnapshot: a subscribe also replays the last recorded trade.
CachedSnapshotWithTrades(type, market) ==
    IF type = "quote" THEN quotesSerialized[market]
    ELSE IF type = "l2snapshot" THEN l2SnapshotsSerialized[market]
    ELSE IF type = "l3snapshot" THEN l3SnapshotsSerialized[market]
    ELSE IF type = "trade" /\ recentTrades[market] # None
    THEN recentTrades[market][1][Len(recentTrades[market][1])]
    ELSE Undefined

\* The cached payload a subscribe to (type, market) sends, Undefined if none.
CachedSnapshot(type, market) ==
    IF type = "quote" THEN quotesSerialized[market]
    ELSE IF type = "l2snapshot" THEN l2SnapshotsSerialized[market]
    ELSE IF type = "l3snapshot" THEN l3SnapshotsSerialized[market]
    ELSE Undefined

RECURSIVE Replayed(_)
\* What the loop sends for the given pairs of a subscribe, in order.
Replayed(pairs) ==
    IF pairs = << >> THEN << >>
    ELSE LET cached == CachedSnapshot(Head(pairs)[1], Head(pairs)[2])
         IN  (IF cached # Undefined THEN << Data(cached) >> ELSE << >>)
             \o Replayed(Tail(pairs))

\* Mutant of RequestedSubs: only the first type of the channel counts.
RequestedSubsFirstType(c, request) ==
    { << c, Topic(MESSAGE_TYPES_PER_CHANNEL[request.channel][1], request.items[k]) >> :
        k \in 1..Len(request.items) }

\* The <<connection, topic>> pairs of a request.
RequestedSubs(c, request) ==
    LET pairs == RequestedPairs(request)
    IN  { << c, Topic(pairs[k][1], pairs[k][2]) >> : k \in 1..Len(pairs) }

\* Mutant of SubsAfter: a subscribe to a topic subscribed to already drops it.
SubsAfterToggle(c, request) ==
    IF request.op = "subscribe"
    THEN (subs \cup RequestedSubs(c, request)) \ (subs \cap RequestedSubs(c, request))
    ELSE subs \ RequestedSubs(c, request)

\* Mutant of SubsAfter: a subscribe replays the cache and subscribes to nothing.
SubsAfterReplayOnly(c, request) ==
    IF request.op = "subscribe" THEN subs ELSE subs \ RequestedSubs(c, request)

\* ws.subscribe / ws.unsubscribe of every requested topic.
SubsAfter(c, request) ==
    IF request.op = "subscribe"
    THEN subs \cup RequestedSubs(c, request)
    ELSE subs \ RequestedSubs(c, request)

\* Mutant of SentForRequest: the confirmation is sent after the loop.
SentForRequestConfirmedLast(request) ==
    (IF request.op = "subscribe" THEN Replayed(RequestedPairs(request)) ELSE << >>)
    \o << SuccessResponse(request) >>

\* What the handler sends to the connection for a valid request.
SentForRequest(request) ==
    << SuccessResponse(request) >>
    \o (IF request.op = "subscribe" THEN Replayed(RequestedPairs(request)) ELSE << >>)

\* Mutant of SubsWithout: the close drops every connection's subscriptions.
SubsWithoutAnyone(c) == {}

\* Mutant of SubsWithout: a closed connection stays in its topics.
SubsWithoutNothing(c) == subs

\* The topic tree once a connection is closed: uWebSockets drops its subscriptions.
SubsWithout(c) == { p \in subs : p[1] # c }

NoCloseFrame == [ code |-> 0, message |-> "" ]

\* ws.end(1011, message) of the catch.
InternalErrorClose ==
    [ code |-> InternalErrorCloseCode, message |-> InternalErrorMessage ]

\* The handler's effect: what it sends, the subscriptions after it, and
\* whether it ends the connection (the catch).
HandlerOutcome(c, raw) ==
    LET v == ValidateRequestPayload(raw)
    IN  IF RateLimit(c)
        THEN [ sent |-> << ErrorResponse(RateLimitMessage) >>, subs |-> subs,
               end |-> FALSE ]
        ELSE IF v.thrown
        THEN [ sent |-> << >>, subs |-> SubsWithout(c), end |-> TRUE ]
        ELSE IF ~v.isValid
        THEN [ sent |-> << ErrorResponse(v.error) >>, subs |-> subs, end |-> FALSE ]
        ELSE [ sent |-> SentForRequest(v.request), subs |-> SubsAfter(c, v.request),
               end |-> FALSE ]

HandleSubscriptionRequest(c, raw) ==
    /\ running[Worker]
    /\ conn[c] = "open"
    /\ wsLast' = [ wsLast EXCEPT ![c] = now ]
    /\ wsCount' = [ wsCount EXCEPT ![c] = RateLimitCount(c) ]
    /\ LET o == HandlerOutcome(c, raw)
       IN  /\ sent' = [ NothingSent EXCEPT ![c] = o.sent ]
           /\ subs' = o.subs
           /\ conn' = IF o.end THEN [ conn EXCEPT ![c] = "closed" ] ELSE conn
           /\ closeFrame' = IF o.end
                            THEN [ closeFrame EXCEPT ![c] = InternalErrorClose ]
                            ELSE closeFrame
    /\ windowMsgs' = [ windowMsgs EXCEPT ![c] = @ + 1 ]
    /\ last' = Last("message", c, raw, NoEnvelope, "")
    /\ response' = None
    /\ UNCHANGED << now, l2SnapshotsSerialized, l3SnapshotsSerialized,
                    quotesSerialized, recentTrades, recentTradesSerialized,
                    cachedListMarketsResponse, marketsChannel, req, aborted, running,
                    loaderRuns,
                    tradeLog >>

-----------------------------------------------------------------------------
(* The transport: connections open and close, the window counter ticks *)

\* A client connects to /v1/ws.
Connect(c) ==
    /\ running[Worker]
    /\ conn[c] = "idle"
    /\ conn' = [ conn EXCEPT ![c] = "open" ]
    /\ sent' = NothingSent
    /\ last' = Last("connect", c, NotJson, NoEnvelope, "")
    /\ response' = None
    /\ UNCHANGED << now, wsLast, wsCount, closeFrame, subs, l2SnapshotsSerialized,
                    l3SnapshotsSerialized, quotesSerialized, recentTrades,
                    recentTradesSerialized, cachedListMarketsResponse,
                    marketsChannel, req, aborted, running,
                    loaderRuns, tradeLog, windowMsgs >>

\* The client closes, or the transport does (idle timeout, backpressure).
Disconnect(c) ==
    /\ running[Worker]
    /\ conn[c] = "open"
    /\ conn' = [ conn EXCEPT ![c] = "closed" ]
    /\ subs' = SubsWithout(c)
    /\ sent' = NothingSent
    /\ last' = Last("disconnect", c, NotJson, NoEnvelope, "")
    /\ response' = None
    /\ UNCHANGED << now, wsLast, wsCount, closeFrame, l2SnapshotsSerialized,
                    l3SnapshotsSerialized, quotesSerialized, recentTrades,
                    recentTradesSerialized, cachedListMarketsResponse,
                    marketsChannel, req, aborted, running,
                    loaderRuns, tradeLog, windowMsgs >>

\* setInterval(() => ++now, interval), up to max ticks.
Tick(max) ==
    /\ running[Worker]
    /\ now < max
    /\ now' = now + 1
    /\ windowMsgs' = [ c \in Conns |-> 0 ]
    /\ sent' = NothingSent
    /\ last' = Last("tick", "", NotJson, NoEnvelope, "")
    /\ response' = None
    /\ UNCHANGED << wsLast, wsCount, conn, closeFrame, subs, l2SnapshotsSerialized,
                    l3SnapshotsSerialized, quotesSerialized, recentTrades,
                    recentTradesSerialized, cachedListMarketsResponse,
                    marketsChannel, req, aborted, running,
                    loaderRuns, tradeLog >>

-----------------------------------------------------------------------------
(* processMessage *)

\* Mutant of Published: the publish flag is not looked at.
PublishedAlways(message) ==
    [ c \in Conns |->
        IF << c, Topic(message.type, message.symbol) >> \in subs
        THEN << Data(message.payload) >>
        ELSE << >> ]

\* Mutant of Published: a published payload is sent twice.
PublishedTwice(message) ==
    [ c \in Conns |->
        IF message.publish /\ << c, Topic(message.type, message.symbol) >> \in subs
        THEN << Data(message.payload), Data(message.payload) >>
        ELSE << >> ]

\* this._server.publish(topic, payload): to every connection subscribed to it.
Published(message) ==
    [ c \in Conns |->
        IF message.publish /\ << c, Topic(message.type, message.symbol) >> \in subs
        THEN << Data(message.payload) >>
        ELSE << >> ]

\* Mutant of RecentTradesAfter: the buffer is created anew on every trade.
RecentTradesAfterFresh(message) ==
    Some(CircularBufferAppend(<< >>, message.payload))

\* this._recentTrades[symbol] after a trade: created on the first one.
RecentTradesAfter(message) ==
    Some(CircularBufferAppend(
            IF recentTrades[message.symbol] = None
            THEN << >>
            ELSE recentTrades[message.symbol][1],
            message.payload))

\* Mutant of SnapshotsAfter: an entry, once written, is kept.
SnapshotsAfterFirstWins(cache, type, message) ==
    IF message.type = type /\ cache[message.symbol] = Undefined
    THEN [ cache EXCEPT ![message.symbol] = message.payload ]
    ELSE cache

\* if (message.type === type) { cache[message.symbol] = message.payload }
SnapshotsAfter(cache, type, message) ==
    IF message.type = type
    THEN [ cache EXCEPT ![message.symbol] = message.payload ]
    ELSE cache

ProcessMessage(message) ==
    /\ running[Worker]
    /\ l2SnapshotsSerialized' =
          SnapshotsAfter(l2SnapshotsSerialized, "l2snapshot", message)
    /\ l3SnapshotsSerialized' =
          SnapshotsAfter(l3SnapshotsSerialized, "l3snapshot", message)
    /\ quotesSerialized' = SnapshotsAfter(quotesSerialized, "quote", message)
    /\ recentTrades' =
          IF message.type = "trade"
          THEN [ recentTrades EXCEPT ![message.symbol] = RecentTradesAfter(message) ]
          ELSE recentTrades
    /\ recentTradesSerialized' =
          IF message.type = "trade"
          THEN [ recentTradesSerialized EXCEPT ![message.symbol] = None ]
          ELSE recentTradesSerialized
    /\ tradeLog' =
          IF message.type = "trade"
          THEN [ tradeLog EXCEPT ![message.symbol] = Append(@, message.payload) ]
          ELSE tradeLog
    /\ sent' = Published(message)
    /\ last' = Last("event", "", NotJson, message, "")
    /\ response' = None
    /\ UNCHANGED << now, wsLast, wsCount, conn, closeFrame, subs,
                    cachedListMarketsResponse, marketsChannel, req, aborted, running,
                    loaderRuns,
                    windowMsgs >>

-----------------------------------------------------------------------------
(* _listRecentTrades *)

\* The trades the response holds: the memoized form if set, the buffer otherwise.
SerializedRecentTrades(marketName) ==
    IF recentTradesSerialized[marketName] # None
    THEN recentTradesSerialized[marketName][1]
    ELSE IF recentTrades[marketName] # None
    THEN CircularBufferItems(recentTrades[marketName][1])
    ELSE << >>

\* Mutant of ValidateMarketName: every symbol the producer sends is accepted.
ValidateMarketNameAnySymbol(marketName) == marketName \in Symbols

\* _validateMarketName
ValidateMarketName(marketName) == marketName \in MarketNames

ListRecentTradesResponse(marketName) ==
    IF ~ValidateMarketName(marketName)
    THEN HttpResponse("400", << >>,
                      << "Invalid market name provided", marketName >>, "")
    ELSE HttpResponse("200", SerializedRecentTrades(marketName), << >>, "")

\* GET /v1/recent-trades/:market, answered before the client can abort.
ListRecentTrades(marketName) ==
    /\ running[Worker]
    /\ response' = Some(ListRecentTradesResponse(marketName))
    /\ sent' = NothingSent
    /\ last' = Last("recentTrades", "", NotJson, NoEnvelope, marketName)
    /\ UNCHANGED << now, wsLast, wsCount, conn, closeFrame, subs,
                    l2SnapshotsSerialized, l3SnapshotsSerialized, quotesSerialized,
                    recentTrades, recentTradesSerialized, cachedListMarketsResponse,
                    marketsChannel, req, aborted, running,
                    loaderRuns, tradeLog, windowMsgs >>

-----------------------------------------------------------------------------------------------------------------------------------------------------
(* _listMarkets, initMarketsCache *)

\* JSON.stringify(markets, null, 2) of the loaded markets.
MarketsJson == "markets"

\* Mutant of CacheMiss: the cache is not looked at.
CacheMissAlways(w) == TRUE

\* this._cachedListMarketsResponse === undefined
CacheMiss(w) == cachedListMarketsResponse[w] = Undefined

\* Mutant of MarketsPosted: the computed response is kept to the worker.
MarketsNotPosted(w, text) == marketsChannel

\* serumMarketsChannel.postMessage(text) of a worker: a BroadcastChannel hands
\* the message to every other thread's channel of that name, each in order.
MarketsPosted(w, text) ==
    [ v \in Workers |->
        IF v = w THEN marketsChannel[v] ELSE Append(marketsChannel[v], text) ]

\* Mutant of MarketsWritten: the response is written whatever res.aborted is.
MarketsWrittenAlways(r, text) == Some(HttpResponse("200", << >>, << >>, text))

\* if (!res.aborted) { res.writeHeader(...); res.end(text) }
MarketsWritten(r, text) ==
    IF ~aborted[r] THEN Some(HttpResponse("200", << >>, << >>, text)) ELSE None

\* GET /v1/markets arrives: answered from the cache, or Market.load is awaited.
ListMarketsStart(r) ==
    /\ running[WorkerOf[r]]
    /\ req[r] = "idle"
    /\ IF CacheMiss(WorkerOf[r])
       THEN /\ req' = [ req EXCEPT ![r] = "loading" ]
            /\ loaderRuns' = loaderRuns + 1
            /\ response' = None
       ELSE /\ req' = [ req EXCEPT ![r] = "ended" ]
            /\ loaderRuns' = loaderRuns
            /\ response' = MarketsWritten(r, cachedListMarketsResponse[WorkerOf[r]])
    /\ sent' = NothingSent
    /\ last' = Last("listMarkets", "", NotJson, NoEnvelope, r)
    /\ UNCHANGED << now, wsLast, wsCount, conn, closeFrame, subs,
                    l2SnapshotsSerialized, l3SnapshotsSerialized, quotesSerialized,
                    recentTrades, recentTradesSerialized, cachedListMarketsResponse,
                    marketsChannel, aborted, running, tradeLog, windowMsgs >>

\* The client of a request whose handler awaits Market.load goes away: the
\* callback of res.onAborted runs.
Abort(r) ==
    /\ running[WorkerOf[r]]
    /\ req[r] = "loading"
    /\ ~aborted[r]
    /\ aborted' = [ aborted EXCEPT ![r] = TRUE ]
    /\ response' = None
    /\ sent' = NothingSent
    /\ last' = Last("aborted", "", NotJson, NoEnvelope, r)
    /\ UNCHANGED << now, wsLast, wsCount, conn, closeFrame, subs,
                    l2SnapshotsSerialized, l3SnapshotsSerialized, quotesSerialized,
                    recentTrades, recentTradesSerialized, cachedListMarketsResponse,
                    marketsChannel, req, running, loaderRuns, tradeLog,
                    windowMsgs >>

\* Promise.all of the Market.load calls resolves: the handler goes on.
ListMarketsLoaded(r) ==
    /\ running[WorkerOf[r]]
    /\ req[r] = "loading"
    /\ cachedListMarketsResponse' =
          [ cachedListMarketsResponse EXCEPT ![WorkerOf[r]] = MarketsJson ]
    /\ marketsChannel' = MarketsPosted(WorkerOf[r], MarketsJson)
    /\ req' = [ req EXCEPT ![r] = "ended" ]
    /\ response' = MarketsWritten(r, MarketsJson)
    /\ sent' = NothingSent
    /\ last' = Last("marketsLoaded", "", NotJson, NoEnvelope, r)
    /\ UNCHANGED << now, wsLast, wsCount, conn, closeFrame, subs,
                    l2SnapshotsSerialized, l3SnapshotsSerialized, quotesSerialized,
                    recentTrades, recentTradesSerialized, aborted, running,
                    loaderRuns, tradeLog, windowMsgs >>

\* What becomes of the worker when the promise of _listMarkets is rejected:
\* nothing handles it, the unhandledRejection listener throws it again, and
\* the uncaught exception ends the worker thread.
RunningAfterRejection == FALSE

\* A Market.load call rejects: the handler's promise is rejected, and nothing
\* is written to the response.
ListMarketsLoadFailed(r) ==
    /\ running[WorkerOf[r]]
    /\ req[r] = "loading"
    /\ req' = [ req EXCEPT ![r] = "rejected" ]
    /\ running' = [ running EXCEPT ![WorkerOf[r]] = RunningAfterRejection ]
    /\ response' = None
    /\ sent' = NothingSent
    /\ last' = Last("marketsLoadFailed", "", NotJson, NoEnvelope, r)
    /\ UNCHANGED << now, wsLast, wsCount, conn, closeFrame, subs,
                    l2SnapshotsSerialized, l3SnapshotsSerialized, quotesSerialized,
                    recentTrades, recentTradesSerialized, cachedListMarketsResponse,
                    marketsChannel, aborted, loaderRuns, tradeLog, windowMsgs >>

\* serumMarketsChannel.onmessage of a worker: initMarketsCache(message.data).
InitMarketsCache(w) ==
    /\ running[w]
    /\ marketsChannel[w] # << >>
    /\ cachedListMarketsResponse' =
          [ cachedListMarketsResponse EXCEPT ![w] = Head(marketsChannel[w]) ]
    /\ marketsChannel' = [ marketsChannel EXCEPT ![w] = Tail(@) ]
    /\ response' = None
    /\ sent' = NothingSent
    /\ last' = Last("initMarketsCache", "", NotJson, NoEnvelope, w)
    /\ UNCHANGED << now, wsLast, wsCount, conn, closeFrame, subs,
                    l2SnapshotsSerialized, l3SnapshotsSerialized, quotesSerialized,
                    recentTrades, recentTradesSerialized, req, aborted, running,
                    loaderRuns, tradeLog, windowMsgs >>

-----
(* The specifications *)

Init ==
    /\ now = 0
    /\ wsLast = [ c \in Conns |-> -1 ]
    /\ wsCount = [ c \in Conns |-> 0 ]
    /\ conn = [ c \in Conns |-> "idle" ]
    /\ closeFrame = [ c \in Conns |-> NoCloseFrame ]
    /\ subs = {}
    /\ l2SnapshotsSerialized = [ s \in Symbols |-> Undefined ]
    /\ l3SnapshotsSerialized = [ s \in Symbols |-> Undefined ]
    /\ quotesSerialized = [ s \in Symbols |-> Undefined ]
    /\ recentTrades = [ s \in Symbols |-> None ]
    /\ recentTradesSerialized = [ s \in Symbols |-> None ]
    /\ cachedListMarketsResponse = [ w \in Workers |-> Undefined ]
    /\ marketsChannel = [ w \in Workers |-> << >> ]
    /\ req = [ r \in Requests |-> "idle" ]
    /\ aborted = [ r \in Requests |-> FALSE ]
    /\ running = [ w \in Workers |-> TRUE ]
    /\ loaderRuns = 0
    /\ response = None
    /\ tradeLog = [ s \in Symbols |-> << >> ]
    /\ windowMsgs = [ c \in Conns |-> 0 ]
    /\ sent = NothingSent
    /\ last = [ handler |-> "init", conn |-> "", raw |-> NotJson,
                message |-> NoEnvelope, arg |-> "", subs |-> {} ]
    /\ stepLog = << >>
    /\ delivered = [ c \in Conns |-> << >> ]

\* The observer of a step: it notes the step, if it handled a control
\* message or a data message, by its history record (the handler, its input
\* and the subscriptions before it), and it notes what the step sent to
\* every connection, each message with the place of its step in the log.
\* It is no part of the worker; a specification runs the handlers with it
\* or without it.
Observe ==
    /\ stepLog' = IF last'.handler \in {"event", "message"}
                  THEN Append(stepLog, last')
                  ELSE stepLog
    /\ delivered' =
          [ c \in Conns |->
              delivered[c]
              \o [ k \in 1..Len(sent'[c]) |->
                     [ at |-> Len(stepLog'), message |-> sent'[c][k] ] ] ]

NoObserve == UNCHANGED << stepLog, delivered >>

-----------------------------------------------------------------------------
(* Spec: the WebSocket side of one worker and the producer's messages *)

\* The control messages of the first connection.
RawMessages ==
    { NotJson, JsonNull }
    \cup { Request(op, ch, << "BTC/USDT" >>) : op \in OPS, ch \in CHANNELS }
    \cup { Request("subscribe", "level2", << "BTC/USDT", "ETH/USDT" >>),
           Request("subscribe", "quotes", << "BTC/USDT", "BTC/USDT" >>) }

\* The control messages of every other connection.
OtherRawMessages == { Request(op, "ticker", << "BTC/USDT" >>) : op \in OPS }

RawMessagesOf(c) == IF c = "c1" THEN RawMessages ELSE OtherRawMessages

\* The data messages Spec processes.
Envelopes ==
    { Envelope("quote", "BTC/USDT", p, b) : p \in Payloads, b \in BOOLEAN }
    \cup { Envelope("trade", "BTC/USDT", "p1", b) : b \in BOOLEAN }
    \cup { Envelope(t, "BTC/USDT", "p1", TRUE) :
             t \in {"l2snapshot", "l3snapshot", "l2update"} }

SendMessage ==
    \E c \in Conns :
        \E raw \in RawMessagesOf(c) :
            /\ RateLimitNewWindow(c) \/ wsCount[c] < MaxBurst
            /\ HandleSubscriptionRequest(c, raw)

Produce ==
    \E message \in Envelopes :
        /\ message.type = "trade" => Len(tradeLog[message.symbol]) < MaxTrades
        /\ ProcessMessage(message)

Next ==
    \/ \E c \in Conns : Connect(c) /\ NoObserve
    \/ \E c \in Conns : Disconnect(c) /\ NoObserve
    \/ SendMessage /\ NoObserve
    \/ Produce /\ NoObserve

Spec == Init /\ [][Next]_vars

-----------------------------------------------------------------------------
(* SpecRate: the rate limiter at its limit, over two windows *)

RateRawMessages == { Request("subscribe", "trades", << "BTC/USDT" >>), NotJson }

SendMessageRate ==
    \E c \in Conns, raw \in RateRawMessages :
        /\ RateLimitNewWindow(c)
             \/ wsCount[c] < MAX_MESSAGES_PER_SECOND + MaxOverLimit
        /\ HandleSubscriptionRequest(c, raw)

NextRate ==
    \/ \E c \in Conns : Connect(c) /\ NoObserve
    \/ Tick(MaxNowRate) /\ NoObserve
    \/ SendMessageRate /\ NoObserve

SpecRate == Init /\ [][NextRate]_vars

\* The last step handled a control message and answered it with the
\* rate-limit error alone.
RateLimitedLast ==
    /\ last.handler = "message"
    /\ sent[last.conn] = << ErrorResponse(RateLimitMessage) >>

-----------------------------------------------------------------------------
(* What the claims speak of, stated apart from the handlers *)

\* A raw message that passes every check of the validator.
WellFormed(raw) ==
    /\ raw.json
    /\ raw.kind = "object"
    /\ raw.op \in {"subscribe", "unsubscribe"}
    /\ raw.channel \in DOMAIN MESSAGE_TYPES_PER_CHANNEL
    /\ raw.isArray
    /\ Len(raw.items) >= 1
    /\ Len(raw.items) <= 40
    /\ \A i \in 1..Len(raw.items) : raw.items[i] \in MarketNames

\* The last step handled a control message that the rate limiter let pass.
HandledLast == last.handler = "message" /\ windowMsgs[last.conn] <= 50

\* The confirmation a well-formed request is answered with.
ConfirmationOf(raw) ==
    [ type |-> IF raw.op = "subscribe" THEN "subscribed" ELSE "unsubscribed",
      channel |-> raw.channel,
      markets |-> raw.items ]

\* The topics of a well-formed request.
TopicsOf(raw) ==
    { << MESSAGE_TYPES_PER_CHANNEL[raw.channel][i], raw.items[j] >> :
        i \in 1..Len(MESSAGE_TYPES_PER_CHANNEL[raw.channel]),
        j \in 1..Len(raw.items) }

\* The snapshot cache's entry of a type and a market, Undefined if there is none.
CacheEntry(type, market) ==
    CASE type = "quote" -> quotesSerialized[market]
      [] type = "l2snapshot" -> l2SnapshotsSerialized[market]
      [] type = "l3snapshot" -> l3SnapshotsSerialized[market]
      [] OTHER -> Undefined

RECURSIVE PushesOfType(_, _)
PushesOfType(type, markets) ==
    IF markets = << >> THEN << >>
    ELSE (IF type \in {"quote", "l2snapshot", "l3snapshot"}
             /\ CacheEntry(type, Head(markets)) # Undefined
          THEN << [ type |-> "data", payload |-> CacheEntry(type, Head(markets)) ] >>
          ELSE << >>)
         \o PushesOfType(type, Tail(markets))

RECURSIVE ExpectedPushes(_, _)
\* The cached payloads a subscribe pushes: for every type of the channel and
\* every requested market, the cache's entry if the type is a snapshot type
\* and an entry exists.
ExpectedPushes(types, markets) ==
    IF types = << >> THEN << >>
    ELSE PushesOfType(Head(types), markets) \o ExpectedPushes(Tail(types), markets)

-----------------------------------------------------------------------------
(* Claims under Spec *)

\* C2: a data message's payload is delivered to a connection exactly when the
\* message is marked publish and the connection is subscribed to the topic
\* type/symbol when the message is processed; it is delivered once and
\* unchanged, and a connection that is not subscribed receives nothing.
C2_PublishedToSubscribersOnly ==
    last.handler = "event" =>
        \A c \in Conns :
            sent[c] =
                IF /\ last.message.publish
                   /\ << c, << last.message.type, last.message.symbol >> >> \in last.subs
                THEN << [ type |-> "data", payload |-> last.message.payload ] >>
                ELSE << >>

\* C2 witness: a published quote reached the connection subscribed to its
\* topic and not the open connection that is not subscribed to it.
C2_Witness ==
    /\ last.handler = "event"
    /\ last.message.publish
    /\ last.message.type = "quote"
    /\ sent["c1"] = << [ type |-> "data", payload |-> last.message.payload ] >>
    /\ sent["c2"] = << >>
    /\ conn["c2"] = "open"

\* C3: a valid subscribe pushes, after its confirmation, the cached payload
\* of every (type, market) pair whose type is quote, l2snapshot or l3snapshot
\* and that has one, and nothing for a pair without one or of type trade,
\* whatever the recent-trades buffer holds; an unsubscribe pushes nothing.
C3_ReplayOnSubscribe ==
    (HandledLast /\ WellFormed(last.raw)) =>
        LET out == sent[last.conn]
            types == MESSAGE_TYPES_PER_CHANNEL[last.raw.channel]
        IN  /\ Len(out) >= 1
            /\ last.raw.op = "subscribe" =>
                  Tail(out) = ExpectedPushes(types, last.raw.items)
            /\ (last.raw.op = "subscribe" /\ types = << "trade" >>) => Len(out) = 1
            /\ last.raw.op = "unsubscribe" => Len(out) = 1

\* C3 witness: a subscribe to ticker (trade and quote) of a market with
\* recorded trades and a cached quote pushed the quote and no trade.
C3_Witness ==
    /\ HandledLast
    /\ last.raw = Request("subscribe", "ticker", << "BTC/USDT" >>)
    /\ tradeLog["BTC/USDT"] # << >>
    /\ quotesSerialized["BTC/USDT"] = "p2"
    /\ Len(sent[last.conn]) = 2
    /\ sent[last.conn][2] = [ type |-> "data", payload |-> "p2" ]

\* C4 (the claim as stated): a control message that is not rate-limited and
\* fails validation is answered with exactly one error response, and the
\* connection stays open.
C4_ValidationErrorKeepsConnectionOpen ==
    (HandledLast /\ ~WellFormed(last.raw)) =>
        /\ Len(sent[last.conn]) = 1
        /\ sent[last.conn][1].type = "error"
        /\ conn[last.conn] = "open"

\* C7: a control message that passes the rate limiter and the validator is
\* answered with exactly one confirmation, sent first, of type subscribed or
\* unsubscribed after its op and with the request's channel and markets;
\* everything after it is replayed data, so no error is sent.
C7_OneConfirmationFirst ==
    (HandledLast /\ WellFormed(last.raw)) =>
        LET out == sent[last.conn]
        IN  /\ Len(out) >= 1
            /\ out[1] = ConfirmationOf(last.raw)
            /\ \A i \in 2..Len(out) : out[i].type = "data"

\* C7 witness: a subscribe to level2 of a market with a cached l2snapshot was
\* confirmed and then replayed the snapshot.
C7_Witness ==
    /\ HandledLast
    /\ last.raw = Request("subscribe", "level2", << "BTC/USDT" >>)
    /\ sent[last.conn] =
         << [ type |-> "subscribed", channel |-> "level2",
              markets |-> << "BTC/USDT" >> ],
            [ type |-> "data", payload |-> "p1" ] >>

\* C9: a subscribe to topics the connection is subscribed to already, and an
\* unsubscribe from topics it is subscribed to none of, leave every
\* subscriber set as it was; the unsubscribe is confirmed like any other and
\* the connection stays open; a published message reaches a subscriber once.
C9_SubscribeIdempotent ==
    /\ (HandledLast /\ WellFormed(last.raw)) =>
          LET c == last.conn
              mine == { t \in TopicsOf(last.raw) : << c, t >> \in last.subs }
          IN  /\ (last.raw.op = "subscribe" /\ mine = TopicsOf(last.raw)) =>
                    subs = last.subs
              /\ (last.raw.op = "unsubscribe" /\ mine = {}) =>
                    /\ subs = last.subs
                    /\ sent[c] = << ConfirmationOf(last.raw) >>
                    /\ conn[c] = "open"
    /\ last.handler = "event" =>
          \A c \in Conns :
              Len(sent[c]) =
                  IF /\ last.message.publish
                     /\ << c, << last.message.type, last.message.symbol >> >> \in subs
                  THEN 1 ELSE 0

\* C9 witness: a connection subscribed to a channel whose topics it was
\* subscribed to already.
C9_Witness ==
    /\ HandledLast
    /\ WellFormed(last.raw)
    /\ last.raw.op = "subscribe"
    /\ \A t \in TopicsOf(last.raw) : << last.conn, t >> \in last.subs

\* The messages whose handling raises an unexpected failure: JSON null, of
\* which no property can be read.
RaisesFailure(raw) == raw.json /\ raw.kind = "null"

\* The subscriptions of a connection in a topic tree.
SubsOf(tree, c) == { p \in tree : p[1] = c }

\* C10: a failure raised while a control message of a connection is handled
\* ends that connection with code 1011 and a generic message; the worker
\* keeps running, and the state and subscriptions of every other connection
\* and the snapshot cache stay as they were.
C10_FailureClosesOnlySender ==
    [][ (last'.handler = "message" /\ RaisesFailure(last'.raw)) =>
          /\ conn'[last'.conn] = "closed"
          /\ closeFrame'[last'.conn] =
               [ code |-> 1011, message |-> "Subscription request internal error" ]
          /\ running'[Worker]
          /\ \A d \in Conns \ {last'.conn} :
                /\ conn'[d] = conn[d]
                /\ closeFrame'[d] = closeFrame[d]
                /\ SubsOf(subs', d) = SubsOf(subs, d)
          /\ UNCHANGED << quotesSerialized, l2SnapshotsSerialized,
                          l3SnapshotsSerialized, recentTrades >>
      ]_vars

\* C10 witness: a connection was ended with 1011 while the other one is
\* open with subscriptions and the cache holds a quote.
C10_Witness ==
    /\ last.handler = "message"
    /\ RaisesFailure(last.raw)
    /\ closeFrame[last.conn].code = 1011
    /\ \E d \in Conns \ {last.conn} : conn[d] = "open" /\ SubsOf(subs, d) # {}
    /\ quotesSerialized["BTC/USDT"] # Undefined

\* C14: a connection that was torn down, by the client or the transport or
\* by the close with code 1011 after a failure, is in no topic's subscriber
\* set, and nothing is sent to it from then on: no data message processed
\* afterwards reaches it.
C14_ClosedConnectionLeavesTopics ==
    /\ \A c \in Conns :
          conn[c] = "closed" =>
              /\ \A t \in DataTypes, s \in Symbols : << c, << t, s >> >> \notin subs
              /\ sent[c] = << >>
    /\ (last.handler = "disconnect"
          \/ (last.handler = "message" /\ closeFrame[last.conn].code = 1011)) =>
          conn[last.conn] = "closed"

\* C14 witness: a data message was published to the topic's one remaining
\* subscriber after the other connection, ended with 1011, had left.
C14_Witness ==
    /\ last.handler = "event"
    /\ last.message.publish
    /\ conn["c1"] = "closed"
    /\ closeFrame["c1"].code = 1011
    /\ sent["c2"] = << [ type |-> "data", payload |-> last.message.payload ] >>
    /\ sent["c1"] = << >>

\* C17 (the claim as stated): a control message that the rate limiter
\* rejects (the 51st or a later one of its window) or that is no valid
\* request changes no subscriber set, no cache entry and no recent-trades
\* buffer and nothing of another connection's rate-limiter counters; its
\* sender gets exactly one error response, the one that states the limit of
\* 50 if the rate limiter rejected it, whatever the message holds, and the
\* sender stays open.
C17_RejectedMessageChangesNothing ==
    [][ (/\ last'.handler = "message"
         /\ windowMsgs'[last'.conn] > 50 \/ ~WellFormed(last'.raw)) =>
            /\ subs' = subs
            /\ UNCHANGED << quotesSerialized, l2SnapshotsSerialized,
                            l3SnapshotsSerialized, recentTrades,
                            recentTradesSerialized >>
            /\ \A d \in Conns \ {last'.conn} :
                  wsLast'[d] = wsLast[d] /\ wsCount'[d] = wsCount[d]
            /\ Len(sent'[last'.conn]) = 1
            /\ sent'[last'.conn][1].type = "error"
            /\ windowMsgs'[last'.conn] > 50 =>
                  sent'[last'.conn][1].message[2] = "50"
            /\ conn'[last'.conn] = "open"
      ]_vars

\* C19: after a valid unsubscribe of a channel and markets the connection is
\* subscribed to none of the topics type/market with the type among the
\* channel's data types and the market among the request's, through whatever
\* channel it had subscribed to them; its membership of every other topic,
\* and every other connection's membership of any topic, is as before.
C19_UnsubscribePerTopic ==
    (HandledLast /\ WellFormed(last.raw) /\ last.raw.op = "unsubscribe") =>
        /\ \A t \in DataTypes, s \in Symbols :
              IF << t, s >> \in TopicsOf(last.raw)
              THEN << last.conn, << t, s >> >> \notin subs
              ELSE << last.conn, << t, s >> >> \in subs
                     <=> << last.conn, << t, s >> >> \in last.subs
        /\ \A d \in Conns \ {last.conn} : SubsOf(subs, d) = SubsOf(last.subs, d)

\* C19 witness: the connection's second message unsubscribed it from the
\* quotes channel after its first had subscribed it to trade and quote of
\* the market through the ticker channel: it left quote and kept trade.
C19_Witness ==
    /\ HandledLast
    /\ last.raw = Request("unsubscribe", "quotes", << "BTC/USDT" >>)
    /\ windowMsgs[last.conn] = 2
    /\ SubsOf(last.subs, last.conn)
         = { << last.conn, << "trade", "BTC/USDT" >> >>,
             << last.conn, << "quote", "BTC/USDT" >> >> }
    /\ SubsOf(subs, last.conn) = { << last.conn, << "trade", "BTC/USDT" >> >> }

-----------------------------------------------------------------------------
(* SpecTrades: more trades than the recent-trades buffer holds, and reads *)

\* The n-th trade of a symbol carries the payload "n".
ProduceTrade ==
    \E s \in MarketNames :
        /\ Len(tradeLog[s]) < MaxTradesLong
        /\ ProcessMessage(Envelope("trade", s, ToString(Len(tradeLog[s]) + 1), TRUE))

NextTrades ==
    \/ ProduceTrade /\ NoObserve
    \/ \E m \in MarketNames \cup {"UNKNOWN"} : ListRecentTrades(m) /\ NoObserve

SpecTrades == Init /\ [][NextTrades]_vars

\* The last n items of a sequence.
LastItems(seq, n) == SubSeq(seq, Len(seq) - n + 1, Len(seq))

Min(a, b) == IF a <= b THEN a ELSE b

\* C6: the recent-trades buffer of a symbol never holds more than 100
\* entries, and a read of a registered market's recent trades returns the
\* last min(n, 100) of the n trade payloads processed for it, oldest first.
C6_RecentTradesWindow ==
    /\ \A s \in Symbols :
          recentTrades[s] # None => Len(recentTrades[s][1]) <= 100
    /\ (last.handler = "recentTrades" /\ last.arg \in MarketNames) =>
          /\ response # None
          /\ response[1].status = "200"
          /\ response[1].trades =
               LastItems(tradeLog[last.arg], Min(Len(tradeLog[last.arg]), 100))

\* C6 witness: after 150 trades of a market, a read returned the 100 trades
\* t51..t150.
C6_Witness ==
    /\ last.handler = "recentTrades"
    /\ last.arg \in MarketNames
    /\ Len(tradeLog[last.arg]) = 150
    /\ Len(response[1].trades) = 100
    /\ response[1].trades[1] = "51"
    /\ response[1].trades[100] = "150"

\* C20 (the claim as stated): the memoized serialized form of a symbol's
\* recent trades is unset after a trade of the symbol is appended, and a
\* read of a registered market's recent trades leaves it set to the array
\* the read returned, for the reads up to the next append to use.
C20_MemoRebuiltOnRead ==
    /\ (last.handler = "event" /\ last.message.type = "trade") =>
          recentTradesSerialized[last.message.symbol] = << >>
    /\ (last.handler = "recentTrades" /\ last.arg \in MarketNames) =>
          /\ response # << >>
          /\ recentTradesSerialized[last.arg] = << response[1].trades >>

-----------------------------------------------------------------------------
(* SpecValidate: the validator over every kind of raw message *)

MarketsArrays ==
    { << >>,
      << "BTC/USDT" >>,
      << "btc/usdt" >>,
      << "BTC/USDT", "BTC/XXX", "ETH/XXX" >>,
      Rep("BTC/USDT", 40),
      Rep("BTC/USDT", 41),
      Rep("BTC/XXX", 41),
      [ i \in 1..40 |-> IF i = 40 THEN "BTC/XXX" ELSE "ETH/USDT" ] }

AllRawMessages ==
    { NotJson, JsonNull, JsonScalar }
    \cup { Request(op, ch, items) :
             op \in {"subscribe", "unsubscribe", "sub", Undefined},
             ch \in {"trades", "level2", "bogus", Undefined},
             items \in MarketsArrays }
    \cup { RequestNoArray(op, ch) :
             op \in {"subscribe", "unsubscribe", "sub", Undefined},
             ch \in {"trades", "level2", "bogus", Undefined} }

\* The validator does not look at the connection: one connection sends.
SendAnyMessage ==
    \E raw \in AllRawMessages :
        /\ RateLimitNewWindow("c1") \/ wsCount["c1"] < MaxBurst
        /\ HandleSubscriptionRequest("c1", raw)

NextValidate ==
    \/ \E c \in Conns : Connect(c) /\ NoObserve
    \/ SendAnyMessage /\ NoObserve

SpecValidate == Init /\ [][NextValidate]_vars

\* The handler answered with the one error of the given text.
AnsweredError(out, text) ==
    /\ Len(out) = 1
    /\ out[1].type = "error"
    /\ out[1].message[1] = text

\* C8: the validator checks, in this order, that the payload parses, the op,
\* the channel, that markets is a non-empty array, that it holds at most 40
\* items, and that every item is a registered market name (the same string);
\* the error is that of the first check that fails, so more than 40 markets
\* are reported as too many whatever they are; a request is accepted exactly
\* when all six checks pass.  (JSON null, on which the op check throws, is
\* the subject of C4.)
C8_ValidatorOrder ==
    HandledLast =>
        LET raw == last.raw
            out == sent[last.conn]
            opOk == raw.op \in {"subscribe", "unsubscribe"}
            channelOk == raw.channel \in DOMAIN MESSAGE_TYPES_PER_CHANNEL
            arrayOk == raw.isArray /\ Len(raw.items) >= 1
            sizeOk == Len(raw.items) <= 40
            unknown == { i \in 1..Len(raw.items) : raw.items[i] \notin MarketNames }
        IN  /\ ~raw.json => AnsweredError(out, "Invalid JSON.")
            /\ (raw.json /\ ~RaisesFailure(raw) /\ ~opOk) =>
                  AnsweredError(out, "Invalid op") /\ out[1].message[2] = raw.op
            /\ (raw.json /\ opOk /\ ~channelOk) =>
                  /\ AnsweredError(out, "Invalid channel provided")
                  /\ out[1].message[2] = raw.channel
            /\ (raw.json /\ opOk /\ channelOk /\ ~arrayOk) =>
                  AnsweredError(out, "Invalid or empty markets array provided.")
            /\ (raw.json /\ opOk /\ channelOk /\ arrayOk /\ ~sizeOk) =>
                  AnsweredError(out, "Too large markets array provided (> 40 items).")
            /\ (raw.json /\ opOk /\ channelOk /\ arrayOk /\ sizeOk /\ unknown # {}) =>
                  /\ AnsweredError(out, "Invalid market name provided")
                  /\ \E i \in unknown :
                        /\ \A j \in unknown : i <= j
                        /\ out[1].message[2] = raw.items[i]
            /\ (Len(out) >= 1 /\ out[1].type \in {"subscribed", "unsubscribed"})
                  <=> (raw.json /\ raw.kind = "object" /\ opOk /\ channelOk
                       /\ arrayOk /\ sizeOk /\ unknown = {})

\* C8 witness: a subscribe with 41 markets, none of them registered, was
\* rejected as too large.
C8_Witness ==
    /\ HandledLast
    /\ last.raw = Request("subscribe", "trades", Rep("BTC/XXX", 41))
    /\ AnsweredError(sent[last.conn], "Too large markets array provided (> 40 items).")

-----------------------------------------------------------------------------
(* SpecHttp: the HTTP endpoints beside control messages and data messages *)

SendMessageHttp ==
    \E c \in Conns, raw \in OtherRawMessages :
        /\ RateLimitNewWindow(c) \/ wsCount[c] < MaxBurst
        /\ HandleSubscriptionRequest(c, raw)

ProduceHttp ==
    \E t \in {"trade", "quote"} :
        /\ t = "trade" => Len(tradeLog["BTC/USDT"]) < MaxTrades
        /\ ProcessMessage(Envelope(t, "BTC/USDT", "p1", TRUE))

NextHttp ==
    \/ \E r \in RequestsOf(Worker) : ListMarketsStart(r) /\ NoObserve
    \/ \E r \in RequestsOf(Worker) : ListMarketsLoaded(r) /\ NoObserve
    \/ \E r \in RequestsOf(Worker) : ListMarketsLoadFailed(r) /\ NoObserve
    \/ \E r \in RequestsOf(Worker) : Abort(r) /\ NoObserve
    \/ \E m \in MarketNames \cup {"UNKNOWN"} : ListRecentTrades(m) /\ NoObserve
    \/ \E c \in Conns : Connect(c) /\ NoObserve
    \/ SendMessageHttp /\ NoObserve
    \/ ProduceHttp /\ NoObserve

SpecHttp == Init /\ [][NextHttp]_vars

\* C5 (the claim as stated): when the metadata loader fails during a GET
\* /markets, the worker keeps running and the request is answered with a
\* failed response.
C5_LoaderFailureDoesNotCrash ==
    \A r \in Requests :
        req[r] = "rejected" =>
            /\ running[WorkerOf[r]]
            /\ (last.handler = "marketsLoadFailed" /\ last.arg = r) =>
                  (response # None /\ response[1].status # "200")

-----------------------------------------------------------------------------
(* SpecRecent: GET /v1/recent-trades/:market beside the trades of every symbol *)

\* The market names GET /v1/recent-trades/:market is asked for: the registered
\* ones, one in another case, a symbol of the producer that is not registered
\* and one nobody knows.
AskedMarketNames == MarketNames \cup {"btc/usdt", "XRP/USDT", "UNKNOWN"}

ProduceRecent ==
    \E s \in Symbols, p \in Payloads :
        /\ Len(tradeLog[s]) < MaxTrades
        /\ ProcessMessage(Envelope("trade", s, p, TRUE))

NextRecent ==
    \/ ProduceRecent /\ NoObserve
    \/ \E m \in AskedMarketNames : ListRecentTrades(m) /\ NoObserve

SpecRecent == Init /\ [][NextRecent]_vars

-----------------------------------------------------------------------------
(* SpecCache: data messages of every type, for a registered symbol and for *)
(* one that is not, noted by the observer                                  *)

SnapshotTypes == {"quote", "l2snapshot", "l3snapshot"}

CacheEnvelopes ==
    { Envelope(t, s, p, TRUE) :
        t \in DataTypes, s \in {"BTC/USDT", "XRP/USDT"}, p \in Payloads }
    \cup { Envelope("quote", "ETH/USDT", "p1", FALSE) }

ProduceCache ==
    \E message \in CacheEnvelopes :
        /\ Len(stepLog) < MaxEvents
        /\ ProcessMessage(message)

NextCache ==
    \/ ProduceCache /\ Observe

SpecCache == Init /\ [][NextCache]_vars

\* The places of the data messages of a type and a symbol in a log.
PlacesOf(log, type, symbol) ==
    { i \in 1..Len(log) :
        /\ log[i].handler = "event"
        /\ log[i].message.type = type
        /\ log[i].message.symbol = symbol }

\* The payload the cache is to hold for a type and a symbol after a log.
LatestOf(log, type, symbol) ==
    LET places == PlacesOf(log, type, symbol)
    IN  IF places = {} THEN "undefined"
        ELSE log[CHOOSE i \in places : \A j \in places : j <= i].message.payload

-----------------------------------------------------------------------------
(* SpecOrder: control messages and data messages in every interleaving,    *)
(* every step and every delivery noted by the observer                     *)

\* The data messages the producer may send next: the payload names the place
\* the message takes in the log, so no two messages carry the same payload.
OrderEnvelopes ==
    LET p == ToString(Len(stepLog) + 1)
    IN  { Envelope("quote", "BTC/USDT", p, b) : b \in BOOLEAN }
        \cup { Envelope("trade", "BTC/USDT", p, TRUE),
               Envelope("quote", "ETH/USDT", p, TRUE) }

OrderRawMessages(c) ==
    IF c = "c1"
    THEN { Request("subscribe", "quotes", << "BTC/USDT" >>),
           Request("unsubscribe", "quotes", << "BTC/USDT" >>),
           Request("subscribe", "ticker", << "ETH/USDT", "BTC/USDT" >>) }
    ELSE { Request("subscribe", "quotes", << "BTC/USDT" >>) }

SendMessageOrder ==
    \E c \in Conns :
        \E raw \in OrderRawMessages(c) :
            /\ Len(stepLog) < MaxSteps
            /\ HandleSubscriptionRequest(c, raw)

ProduceOrder ==
    \E message \in OrderEnvelopes :
        /\ Len(stepLog) < MaxSteps
        /\ ProcessMessage(message)

NextOrder ==
    \/ \E c \in Conns : Connect(c) /\ Observe
    \/ SendMessageOrder /\ Observe
    \/ ProduceOrder /\ Observe

SpecOrder == Init /\ [][NextOrder]_vars

\* The places in a connection's deliveries of what the step at a place of
\* the log sent to it.
DeliveredAt(c, i) == { j \in 1..Len(delivered[c]) : delivered[c][j].at = i }

\* What the step at a place of the log sent to a connection, in order.
DeliveriesAt(c, i) ==
    LET picked == SelectSeq(delivered[c], LAMBDA d : d.at = i)
    IN  [ j \in 1..Len(picked) |-> picked[j].message ]

\* C16: the deliveries to a connection follow the order of the steps; every
\* data message, in the order processed, was sent exactly once, as it is, to
\* every connection subscribed to its topic at that time if it is marked
\* publish and to no other connection, so of two data messages of one topic
\* a connection subscribed throughout received the earlier one first; and
\* the cache holds, for every symbol and snapshot type, the payload of the
\* last data message processed.
C16_ProcessedInOrder ==
    /\ \A c \in Conns :
          /\ \A j, k \in 1..Len(delivered[c]) :
                j < k => delivered[c][j].at <= delivered[c][k].at
          /\ \A i \in 1..Len(stepLog) :
                stepLog[i].handler = "event" =>
                    LET m == stepLog[i].message
                    IN  IF /\ m.publish
                           /\ << c, << m.type, m.symbol >> >> \in stepLog[i].subs
                        THEN DeliveriesAt(c, i)
                               = << [ type |-> "data", payload |-> m.payload ] >>
                        ELSE DeliveriesAt(c, i) = << >>
    /\ \A s \in Symbols, t \in SnapshotTypes :
          CacheEntry(t, s) = LatestOf(stepLog, t, s)

\* C16 witness: a connection received two quotes of one market, the earlier
\* one first, with nothing between them, while a quote of another market
\* processed between the two was not sent to it.
C16_Witness ==
    \E c \in Conns :
        \E j \in 1..(Len(delivered[c]) - 1) :
            LET d == delivered[c][j]
                e == delivered[c][j + 1]
            IN  /\ d.at + 2 = e.at
                /\ stepLog[d.at].handler = "event"
                /\ stepLog[d.at + 1].handler = "event"
                /\ stepLog[e.at].handler = "event"
                /\ stepLog[d.at].message.symbol = "BTC/USDT"
                /\ stepLog[d.at + 1].message.symbol = "ETH/USDT"
                /\ stepLog[e.at].message.symbol = "BTC/USDT"
                /\ stepLog[d.at].message.type = "quote"
                /\ stepLog[e.at].message.type = "quote"
                /\ d.message.payload = ToString(d.at)
                /\ e.message.payload = ToString(e.at)

\* The types and markets of a well-formed request, in the order of the
\* handler's loops: every market of the first type, then of the next.
PairsOf(raw) ==
    LET types == MESSAGE_TYPES_PER_CHANNEL[raw.channel]
        n == Len(raw.items)
    IN  [ k \in 1..(Len(types) * n) |->
            << types[((k - 1) \div n) + 1], raw.items[((k - 1) % n) + 1] >> ]

\* The step at a place of the log is a well-formed request of a connection
\* with the given op that names the topic.
RequestAt(i, c, op, topic) ==
    /\ stepLog[i].handler = "message"
    /\ stepLog[i].conn = c
    /\ WellFormed(stepLog[i].raw)
    /\ stepLog[i].raw.op = op
    /\ topic \in TopicsOf(stepLog[i].raw)

\* C18: a subscribe is one step among the data messages.  It sends the
\* confirmation and then, for every requested snapshot topic in the order
\* of the request, the payload of the last data message of that topic
\* processed before it, if there is one; and every data message of a
\* requested topic that is published after it, up to the connection's next
\* unsubscribe from that topic, is sent to the connection, after the replay
\* and in the order processed.  So nothing published after the subscribe is
\* missed, and nothing older than the replayed snapshot comes after it.
C18_SubscribeReplayAtomic ==
    \A c \in Conns :
        \A k \in 1..Len(stepLog) :
            (/\ stepLog[k].handler = "message"
             /\ stepLog[k].conn = c
             /\ WellFormed(stepLog[k].raw)
             /\ stepLog[k].raw.op = "subscribe") =>
                LET raw == stepLog[k].raw
                    before == SubSeq(stepLog, 1, k - 1)
                    cached == SelectSeq(PairsOf(raw),
                                LAMBDA p : /\ p[1] \in SnapshotTypes
                                           /\ LatestOf(before, p[1], p[2]) # "undefined")
                    out == DeliveriesAt(c, k)
                IN  /\ Len(out) = 1 + Len(cached)
                    /\ out[1] = ConfirmationOf(raw)
                    /\ \A j \in 1..Len(cached) :
                          out[j + 1] = [ type |-> "data",
                                         payload |-> LatestOf(before, cached[j][1],
                                                              cached[j][2]) ]
                    /\ \A i \in (k + 1)..Len(stepLog) :
                          \A topic \in TopicsOf(raw) :
                              (/\ stepLog[i].handler = "event"
                               /\ stepLog[i].message.publish
                               /\ topic = << stepLog[i].message.type,
                                             stepLog[i].message.symbol >>
                               /\ \A h \in (k + 1)..(i - 1) :
                                     ~RequestAt(h, c, "unsubscribe", topic)) =>
                                  /\ DeliveriesAt(c, i)
                                       = << [ type |-> "data",
                                              payload |-> stepLog[i].message.payload ] >>
                                  /\ \A j \in DeliveredAt(c, k), l \in DeliveredAt(c, i) :
                                        j < l

\* C18 witness: a connection subscribed to the quotes of a market after two
\* quotes of it: it got the confirmation, the second quote as the replay,
\* and then the quote published next.
C18_Witness ==
    /\ Len(stepLog) >= 4
    /\ stepLog[1].handler = "event"
    /\ stepLog[2].handler = "event"
    /\ stepLog[3].handler = "message"
    /\ stepLog[4].handler = "event"
    /\ stepLog[3].conn = "c2"
    /\ Len(delivered["c2"]) = 3
    /\ delivered["c2"][1].message.type = "subscribed"
    /\ delivered["c2"][2] = [ at |-> 3, message |-> [ type |-> "data", payload |-> "2" ] ]
    /\ delivered["c2"][3] = [ at |-> 4, message |-> [ type |-> "data", payload |-> "4" ] ]

-----------------------------------------------------------------------------
(* SpecMarkets: GET /v1/markets on two workers and the markets broadcast *)

NextMarkets ==
    \/ \E r \in Requests : ListMarketsStart(r) /\ NoObserve
    \/ \E r \in Requests : ListMarketsLoaded(r) /\ NoObserve
    \/ \E r \in Requests : ListMarketsLoadFailed(r) /\ NoObserve
    \/ \E r \in Requests : Abort(r) /\ NoObserve
    \/ \E w \in Workers : InitMarketsCache(w) /\ NoObserve
    \/ \E m \in MarketNames \cup {"UNKNOWN"} : ListRecentTrades(m) /\ NoObserve

SpecMarkets == Init /\ [][NextMarkets]_vars

\* C11 (the claim as stated): over all workers and all interleavings of GET
\* /markets requests the loader runs at most once; once a worker has computed
\* and broadcast the markets list no request starts the loader again; and
\* the workers that hold a markets list hold the same one.
C11_LoaderRunsOnceProcessWide ==
    /\ loaderRuns <= 1
    /\ (/\ last.handler = "listMarkets"
        /\ \E w \in Workers : cachedListMarketsResponse[w] # Undefined)
          => req[last.arg] # "loading"
    /\ \A v, w \in Workers :
          (cachedListMarketsResponse[v] # Undefined
             /\ cachedListMarketsResponse[w] # Undefined)
            => cachedListMarketsResponse[v] = cachedListMarketsResponse[w]

\* C11 (amended): a GET /markets request starts the loader exactly when the
\* markets list of the worker it reaches is unset at its arrival, so several
\* requests that arrive before a load completes or before the broadcast is
\* received each run the loader; a request that reaches a worker whose list
\* is set (computed there or received from a sibling) is answered with that
\* list at once; every completed load is posted to every sibling worker; and
\* the workers that hold a markets list hold the same one.
C11_LoaderRunsOnCacheMissOnly ==
    /\ last.handler = "listMarkets" =>
          LET w == WorkerOf[last.arg]
          IN  IF cachedListMarketsResponse[w] = "undefined"
              THEN req[last.arg] = "loading" /\ response = << >>
              ELSE /\ req[last.arg] = "ended"
                   /\ response # << >>
                   /\ response[1].status = "200"
                   /\ response[1].text = cachedListMarketsResponse[w]
    /\ loaderRuns <= Cardinality({ r \in Requests : req[r] # "idle" })
    /\ last.handler = "marketsLoaded" =>
          LET w == WorkerOf[last.arg]
          IN  /\ cachedListMarketsResponse[w] # "undefined"
              /\ \A v \in Workers \ {w} :
                    /\ marketsChannel[v] # << >>
                    /\ marketsChannel[v][Len(marketsChannel[v])]
                         = cachedListMarketsResponse[w]
    /\ \A v, w \in Workers :
          (cachedListMarketsResponse[v] # "undefined"
             /\ cachedListMarketsResponse[w] # "undefined")
            => cachedListMarketsResponse[v] = cachedListMarketsResponse[w]

\* C11 witness: two requests on one worker each ran the loader, and a later
\* request on the sibling was answered from the list the broadcast brought.
C11_Witness ==
    /\ loaderRuns = 2
    /\ last.handler = "listMarkets"
    /\ WorkerOf[last.arg] = "w2"
    /\ req[last.arg] = "ended"
    /\ response # << >>
    /\ response[1].text = "markets"

\* C12: a response is never written for a request its client has aborted.
\* A GET /markets whose client aborts while the loader is awaited writes
\* nothing when the load completes, and the load still sets the cache and
\* is broadcast; the abort itself leaves the worker running and the handler
\* going.  A GET /recent-trades is answered, with 200 or with 400, in the
\* very step in which it arrives, so no abort comes before its write.
C12_AbortSuppressesWrite ==
    /\ (last.handler \in {"listMarkets", "marketsLoaded"} /\ response # << >>)
          => ~aborted[last.arg]
    /\ (last.handler = "marketsLoaded" /\ aborted[last.arg]) =>
          /\ response = << >>
          /\ cachedListMarketsResponse[WorkerOf[last.arg]] = "markets"
          /\ running[WorkerOf[last.arg]]
    /\ last.handler = "aborted" =>
          /\ aborted[last.arg]
          /\ response = << >>
          /\ running[WorkerOf[last.arg]]
          /\ req[last.arg] = "loading"
    /\ last.handler = "recentTrades" =>
          /\ response # << >>
          /\ response[1].status = (IF last.arg \in MarketNames THEN "200" ELSE "400")

\* C12 witness: the load of an aborted GET /markets completed: nothing was
\* written, and the cache is set.
C12_Witness ==
    /\ last.handler = "marketsLoaded"
    /\ aborted[last.arg]
    /\ response = << >>
    /\ cachedListMarketsResponse[WorkerOf[last.arg]] = "markets"

====
